---- MODULE Spec2Model ----
(***************************************************************************)
(* The artifact-bundle engine of GradleUserHomeCache (src/src/caches.ts):  *)
(* restoreArtifactBundles / restoreArtifactBundle and saveArtifactBundles  *)
(* / saveArtifactBundle, with the JavaScript promise scheduling they run   *)
(* under.  A promise body runs to its next await without interleaving; an  *)
(* awaited call into the cache service or the globber settles later, in    *)
(* any order, while no synchronous code of the engine is running.          *)
(*                                                                         *)
(* The collaborators imported from './cache-utils' (restoreCache,          *)
(* saveCache, tryDelete, hashFileNames, getCacheKeyPrefix) and the glob    *)
(* primitive are modelled by their documented contracts: key derivation    *)
(* (4.1), best-effort deletion (4.4 step 6), restoreByKey and saveByKey    *)
(* (6).                                                                    *)
(***************************************************************************)
EXTENDS Integers, Sequences, FiniteSets, TLC

\* ------------------------------------------------------------------ bounds
NumBundles == 2    \* entries of the cache-artifact-bundles mapping
MaxFiles == 1      \* distinct file names a bundle's pattern can match
MaxBuilds == 2     \* files the build tool writes into bundle directories
MaxFailures == 1   \* I/O failures injected by the environment
MaxSteps == 2      \* steps of one job that use the action

VARIABLES
    live,         \* the live tree: set of absolute paths of existing bundle files
    meta,         \* meta-file path -> content, NoFile when the file does not exist
    cache,        \* external cache service: set of [key, path, files] entries
    enginePc,     \* position of restoreArtifactBundles / saveArtifactBundles
    op,           \* which engine is running: "none", "restore", "save"
    debug,        \* this.cacheDebuggingEnabled
    idx,          \* position of the for loop in the bundle mapping
    bpc,          \* per bundle: position of restore/saveArtifactBundle
    bundleFiles,  \* per bundle: local bundleFiles of saveArtifactBundle
    cacheKey,     \* per bundle: local cacheKey of restore/saveArtifactBundle
    outcome,      \* per bundle: what the bundle operation logged
    calls,        \* per bundle: calls issued to the cache service in this run
    delFailed,    \* per bundle: files whose tryDelete failed in this run
    lastSave,     \* per bundle: matched files, upload count and end of the previous saveAll
    builds,       \* files written by the build tool so far
    failures,     \* injected I/O failures so far
    artifactBundleDefinition, \* the action input 'cache-artifact-bundles'
    start,        \* the files, meta-files and cache observed before a batch
    du,           \* what running the 'du' utility on this host ends in
    processEnv,   \* names of the variables exported to the later steps of the job
    savedState,   \* per step: names saved with core.saveState for its post step
    inputs,       \* per step: the inputs behind isCacheDisabled / isCacheReadOnly
    stepPc,       \* per step: position in restore() (main) and save() (post)
    did,          \* per step: what restore() and save() called
    content       \* path -> version of the bytes last written to the file

\* what the steps of the bundle engine never assign
gateVars == <<processEnv, savedState, inputs, stepPc, did>>

auxVars == <<artifactBundleDefinition, start, du, gateVars>>

vars == <<live, meta, cache, enginePc, op, debug, idx, bpc, bundleFiles,
          cacheKey, outcome, calls, delFailed, lastSave, builds, failures,
          auxVars, content>>

\* ------------------------------------------------------------- data model
Bundles == 1..NumBundles
Steps == 1..MaxSteps

\* Lines 6-8
CACHE_RESTORED_VAR == "GRADLE_BUILD_ACTION_CACHE_RESTORED"
GRADLE_USER_HOME == "GRADLE_USER_HOME"
CACHE_LISTENER == "CACHE_LISTENER"

\* a step that has called nothing yet
NothingDone == [init |-> FALSE, restore |-> "no", save |-> "no", report |-> 0,
                info |-> {}]
FileNames == 1..MaxFiles

GradleUserHome == "GUH"
NoFile == <<"ENOENT">>
WS == " "

\* path.resolve(this.gradleUserHome, 'caches', `.gradle-build-action.${name}.cache`)
getBundleMetaFile(name) == <<GradleUserHome, "caches", <<".gradle-build-action", name, "cache">>>>

\* the name of bundle b's directory under Gradle User Home
BundleDir(b) == ToString(b)

\* the mapping in which bundle b's pattern is the directory b of Gradle User
\* Home with a wildcard leaf
OwnDirectories == [i \in 1..NumBundles |-> <<i, <<GradleUserHome, BundleDir(i), "*">>>>]

\* the same mapping with the pattern 'caches/*' for its last bundle
CachesDirectory ==
    [OwnDirectories EXCEPT ![NumBundles] = <<NumBundles, <<GradleUserHome, "caches", "*">>>>]

\* [key, path.resolve(this.gradleUserHome, value)] for every entry of the
\* mapping that the definition holds
getArtifactBundles ==
    IF artifactBundleDefinition = "overlap" THEN CachesDirectory ELSE OwnDirectories

PatternOf(b) == getArtifactBundles[b][2]

SyntaxError == "SyntaxError"

\* JSON.parse that accepts any text
JSONparse_lenient(text) == text

\* Line 259: JSON.parse(artifactBundleDefinition) throws a SyntaxError on
\* text that is not JSON.
JSONparse(text) == IF text = "malformed" THEN SyntaxError ELSE text

\* absolute path of file f under bundle directory b
FilePath(b, f) == <<GradleUserHome, BundleDir(b), f>>

AllPaths == {FilePath(b, f) : b \in Bundles, f \in FileNames}

Matches(pattern, file) == file[1] = pattern[1] /\ file[2] = pattern[2]

Range(s) == {s[i] : i \in 1..Len(s)}

\* every enumeration order of a finite set
Orders(S) == {s \in [1..Cardinality(S) -> S] : \A i, j \in 1..Cardinality(S) : s[i] = s[j] => i = j}

existsSync(file) == meta[file] # NoFile
readFileSync(file) == meta[file]

\* every file that exists under Gradle User Home: the bundle files and the
\* meta-files
FileSystem == live \cup {m \in DOMAIN meta : existsSync(m)}

\* the bytes of an existing file
ReadBytes(f) == IF f \in DOMAIN meta THEN meta[f] ELSE content[f]

\* globber.glob(): the matching files that exist, in directory-listing order
Glob(pattern) == Orders({p \in FileSystem : Matches(pattern, p)})

\* path.relative(this.gradleUserHome, x)
Relative(root, x) == IF x[1] = root THEN SubSeq(x, 2, Len(x)) ELSE <<"..">> \o x

\* the number a relative name stands for in the digest: the bundle files
\* first, then the meta-files
\* the first number of the names under a bundle directory
DirectoryCode == [d \in {BundleDir(b) : b \in Bundles} |->
                    ((CHOOSE b \in Bundles : BundleDir(b) = d) - 1) * MaxFiles]

NameCode(name) ==
    IF name[1] = "caches"
    THEN NumBundles * MaxFiles + name[2][2]
    ELSE DirectoryCode[name[1]] + name[2]

\* hashFileNames: a digest of the ordered list of relative names (collision free)
RECURSIVE hashFileNames(_)
hashFileNames(names) ==
    IF names = <<>> THEN 1
    ELSE hashFileNames(SubSeq(names, 1, Len(names) - 1))
           * (NumBundles * MaxFiles + NumBundles + 1)
         + NameCode(names[Len(names)])

getCacheKeyPrefix == "v1-"

\* createCacheKey that also digests the bytes of the files
createCacheKey_withContent(bundle, files) ==
    LET relativeFiles == [i \in 1..Len(files) |-> Relative(GradleUserHome, files[i])]
        key == hashFileNames(relativeFiles)
    IN  <<getCacheKeyPrefix, ToString(bundle), "-", ToString(key),
          ToString([i \in 1..Len(files) |-> ReadBytes(files[i])])>>

\* Lines 221-233: `${cacheKeyPrefix}${bundle}-${key}`
createCacheKey(bundle, files) ==
    LET relativeFiles == [i \in 1..Len(files) |-> Relative(GradleUserHome, files[i])]
        key == hashFileNames(relativeFiles)
    IN  <<getCacheKeyPrefix, ToString(bundle), "-", ToString(key)>>

\* String.prototype.trim on a string given as a sequence of tokens
RECURSIVE Trim(_)
Trim(s) ==
    IF s = <<>> THEN s
    ELSE IF Head(s) = WS THEN Trim(Tail(s))
    ELSE IF s[Len(s)] = WS THEN Trim(SubSeq(s, 1, Len(s) - 1))
    ELSE s

InFlight(b) == bpc[b] \in {"glob", "saveCache", "uploaded", "written", "restoreCache"}
Settled(b) == bpc[b] \in {"done", "failed"}

\* what a batch finds and leaves: the live tree, the meta-files, the cache
Snapshot == [live |-> live, meta |-> meta, cache |-> cache]

\* nothing is known of a bundle's previous save
NoSave == [known |-> FALSE, files |-> <<>>, calls |-> 0, stopped |-> "no"]

\* ------------------------------------------------------------------- init
Init ==
    /\ live = {}
    /\ meta = [b \in {getBundleMetaFile(n) : n \in Bundles} |-> NoFile]
    /\ cache = {}
    /\ enginePc = "idle"
    /\ op = "none"
    /\ debug = FALSE
    /\ idx = 1
    /\ bpc = [b \in Bundles |-> "init"]
    /\ bundleFiles = [b \in Bundles |-> <<>>]
    /\ cacheKey = [b \in Bundles |-> <<>>]
    /\ outcome = [b \in Bundles |-> "none"]
    /\ calls = [b \in Bundles |-> 0]
    /\ delFailed = [b \in Bundles |-> {}]
    /\ lastSave = [b \in Bundles |-> NoSave]
    /\ builds = 0
    /\ failures = 0
    /\ artifactBundleDefinition = "bundles"
    /\ content = [p \in AllPaths |-> 0]
    /\ start = Snapshot
    /\ du = "ok"
    /\ processEnv = {}
    /\ savedState = [i \in Steps |-> {}]
    /\ inputs = [i \in Steps |-> [disabled |-> FALSE, readOnly |-> FALSE]]
    /\ stepPc = [i \in Steps |-> "main"]
    /\ did = [i \in Steps |-> NothingDone]


\* ----------------------------------------------------- run-local bookkeeping
\* the locals of a finished engine run are dropped
ResetLocals ==
    /\ op' = "none"
    /\ debug' = FALSE
    /\ idx' = 1
    /\ bpc' = [b \in Bundles |-> "init"]
    /\ bundleFiles' = [b \in Bundles |-> <<>>]
    /\ cacheKey' = [b \in Bundles |-> <<>>]
    /\ outcome' = [b \in Bundles |-> "none"]
    /\ calls' = [b \in Bundles |-> 0]
    /\ delFailed' = [b \in Bundles |-> {}]

\* ------------------------------------------------------------ environment
\* The build tool runs between the engines and writes a file into a bundle
\* directory.
BuildTool(b, f) ==
    /\ enginePc = "idle"
    /\ builds < MaxBuilds
    /\ FilePath(b, f) \notin live
    /\ live' = live \cup {FilePath(b, f)}
    /\ content' = [content EXCEPT ![FilePath(b, f)] = 0]
    /\ builds' = builds + 1
    /\ UNCHANGED <<meta, cache, enginePc, op, debug, idx, bpc, bundleFiles,
                   cacheKey, outcome, calls, delFailed, lastSave, failures,
                   auxVars>>

\* ------------------------------------------- cache-utils (by their contract)
\* tryDelete(file): best effort; TRUE when the file is gone afterwards, FALSE
\* when the deletion failed (file is one of `failed`) and was only logged
tryDelete(file, failed) == file \notin failed

\* what this.saveCache([artifactPath], cacheKey) stores: the files under the
\* path, with their bytes, under the key
Archive(artifactPath, key) ==
    LET files == {f \in FileSystem : Matches(artifactPath, f)} IN
    [key |-> key, path |-> artifactPath, files |-> files,
     data |-> [f \in files |-> ReadBytes(f)]]

\* this.restoreCache([artifactPath], cacheKey): the entry stored under exactly
\* this key for this path, if any
CacheEntries(artifactPath, key) == {e \in cache : e.key = key /\ e.path = artifactPath}

\* ------------------------------------------------- restoreArtifactBundle
\* restoreArtifactBundle_call without the existsSync test: the restore is
\* issued with whatever the meta-file path yields
restoreArtifactBundle_call_noExistsTest(bundle, artifactPath) ==
    /\ cacheKey' = [cacheKey EXCEPT ![bundle] = Trim(readFileSync(getBundleMetaFile(bundle)))]
    /\ calls' = [calls EXCEPT ![bundle] = @ + 1]
    /\ bpc' = [bpc EXCEPT ![bundle] = "restoreCache"]
    /\ UNCHANGED outcome

\* restoreArtifactBundle_call that asks for the key of the bundle's current
\* files instead of the key in the meta-file
restoreArtifactBundle_call_currentKey(bundle, artifactPath) ==
    /\ cacheKey' = [cacheKey EXCEPT ![bundle] = createCacheKey(bundle, <<>>)]
    /\ calls' = [calls EXCEPT ![bundle] = @ + 1]
    /\ bpc' = [bpc EXCEPT ![bundle] = "restoreCache"]
    /\ UNCHANGED outcome

\* Lines 130-133 and 143-147: the body up to its first await.
restoreArtifactBundle_call(bundle, artifactPath) ==
    LET bundleMetaFile == getBundleMetaFile(bundle) IN
    IF existsSync(bundleMetaFile)
    THEN /\ cacheKey' = [cacheKey EXCEPT ![bundle] = Trim(readFileSync(bundleMetaFile))]
         /\ calls' = [calls EXCEPT ![bundle] = @ + 1]
         /\ bpc' = [bpc EXCEPT ![bundle] = "restoreCache"]
         /\ UNCHANGED outcome
    ELSE /\ outcome' = [outcome EXCEPT ![bundle] = "NoMetaFile"]
         /\ bpc' = [bpc EXCEPT ![bundle] = "done"]
         /\ UNCHANGED <<cacheKey, calls>>

\* Lines 133-142: this.restoreCache settles and the body runs to its end.
\* A hit unpacks the entry into the live tree; without an entry nothing is
\* restored; an error of the cache service rejects the bundle's promise, as
\* the body has no try/catch.
restoreArtifactBundle_resume(bundle) ==
    /\ bpc[bundle] = "restoreCache"
    /\ enginePc # "loop"
    /\ \/ /\ CacheEntries(PatternOf(bundle), cacheKey[bundle]) # {}
          /\ \E e \in CacheEntries(PatternOf(bundle), cacheKey[bundle]) :
                /\ live' = live \cup (e.files \cap AllPaths)
                /\ content' = [p \in AllPaths |->
                                 IF p \in e.files THEN e.data[p] ELSE content[p]]
                /\ meta' = [m \in DOMAIN meta |->
                              IF m \in e.files THEN e.data[m] ELSE meta[m]]
          /\ outcome' = [outcome EXCEPT ![bundle] = "Restored"]
          /\ bpc' = [bpc EXCEPT ![bundle] = "done"]
          /\ UNCHANGED failures
       \/ /\ CacheEntries(PatternOf(bundle), cacheKey[bundle]) = {}
          /\ outcome' = [outcome EXCEPT ![bundle] = "NotFound"]
          /\ bpc' = [bpc EXCEPT ![bundle] = "done"]
          /\ UNCHANGED <<live, content, meta, failures>>
       \/ /\ failures < MaxFailures
          /\ failures' = failures + 1
          /\ outcome' = [outcome EXCEPT ![bundle] = "Error"]
          /\ bpc' = [bpc EXCEPT ![bundle] = "failed"]
          /\ UNCHANGED <<live, content, meta>>
    /\ UNCHANGED <<cache, enginePc, op, debug, idx, bundleFiles, cacheKey,
                   calls, delFailed, lastSave, builds,
                   auxVars>>

\* --------------------------------------------- reportGradleUserHomeSize
\* fs.existsSync(this.gradleUserHome): the directory exists once a file has
\* been written under it
GradleUserHomeExists == FileSystem # {}

\* Lines 268-283: the report returns at once without the debugging flag or
\* without the directory; otherwise it awaits exec.getExecOutput('du', ...).
\* ignoreReturnCode makes a non-zero exit an ordinary result; a utility that
\* cannot be started rejects the awaited promise, and the report has no
\* try/catch.
reportGradleUserHomeSize_throws(d) == d /\ GradleUserHomeExists /\ du = "missing"

\* ------------------------------------------------ restoreArtifactBundles
\* Lines 107 and 113-114: the first size report of afterRestore, then the
\* empty promise list and getArtifactBundles() in the head of the for loop.
\* An exception of the report leaves afterRestore, a parse error leaves
\* restoreArtifactBundles.
restoreArtifactBundles_enter(d) ==
    /\ enginePc = "idle"
    /\ enginePc' = IF reportGradleUserHomeSize_throws(d) THEN "threw"
                   ELSE IF JSONparse(artifactBundleDefinition) = SyntaxError
                   THEN "threw" ELSE "loop"
    /\ op' = "restore"
    /\ debug' = d
    /\ idx' = 1
    /\ UNCHANGED <<live, meta, cache, bpc, bundleFiles, cacheKey, outcome, calls,
                   delFailed, lastSave, builds, failures,
                   auxVars, content>>

\* where the for loop goes after the bundle at idx
AfterBundle == IF idx = NumBundles THEN "awaitAll" ELSE "loop"

\* Lines 114-121: one iteration of the loop, to its await (debugging) or to
\* the next iteration.
restoreArtifactBundles_iter ==
    /\ enginePc = "loop"
    /\ op = "restore"
    /\ restoreArtifactBundle_call(getArtifactBundles[idx][1], getArtifactBundles[idx][2])
    /\ IF debug
       THEN enginePc' = "awaitP" /\ idx' = idx
       ELSE enginePc' = AfterBundle /\ idx' = idx + 1
    /\ UNCHANGED <<live, meta, cache, op, debug, bundleFiles, delFailed, lastSave,
                   builds, failures,
                   auxVars, content>>

\* Line 118: `await p` resumes when the bundle's promise settles; a rejected
\* promise throws out of the loop.
AwaitP(o) ==
    /\ enginePc = "awaitP"
    /\ op = o
    /\ Settled(getArtifactBundles[idx][1])
    /\ IF bpc[getArtifactBundles[idx][1]] = "failed"
       THEN enginePc' = "threw" /\ idx' = idx
       ELSE enginePc' = AfterBundle /\ idx' = idx + 1
    /\ UNCHANGED <<live, meta, cache, op, debug, bpc, bundleFiles, cacheKey, outcome,
                   calls, delFailed, lastSave, builds, failures,
                   auxVars, content>>

\* AwaitAll with Promise.race in place of Promise.all: the first settled
\* promise ends the wait
AwaitAll_race(o) ==
    /\ enginePc = "awaitAll"
    /\ op = o
    /\ \/ /\ \E b \in Bundles : bpc[b] = "failed"
          /\ enginePc' = "threw"
       \/ /\ \E b \in Bundles : bpc[b] = "done"
          /\ enginePc' = "returned"
    /\ UNCHANGED <<live, meta, cache, op, debug, idx, bpc, bundleFiles, cacheKey,
                   outcome, calls, delFailed, lastSave, builds, failures,
                   auxVars, content>>

\* Line 123: Promise.all rejects with the first rejection, and resolves when
\* every promise has resolved.
AwaitAll(o) ==
    /\ enginePc = "awaitAll"
    /\ op = o
    /\ \/ /\ \E b \in Bundles : bpc[b] = "failed"
          /\ enginePc' = "threw"
       \/ /\ \A b \in Bundles : bpc[b] = "done"
          /\ enginePc' = "returned"
    /\ UNCHANGED <<live, meta, cache, op, debug, idx, bpc, bundleFiles, cacheKey,
                   outcome, calls, delFailed, lastSave, builds, failures,
                   auxVars, content>>

restoreArtifactBundles_awaitP == AwaitP("restore")

restoreArtifactBundles_awaitAll == AwaitAll("restore")

\* Lines 106-110: afterRestore gets control back from restoreArtifactBundles
\* (normally or by the exception); promises still pending settle first.  The
\* second size report (line 109) changes nothing: it can only throw where the
\* first one has thrown, and the first one passed when the bundles were
\* taken up.
afterRestore ==
    /\ enginePc \in {"returned", "threw"}
    /\ op = "restore"
    /\ \A b \in Bundles : ~InFlight(b)
    /\ enginePc' = "idle"
    /\ ResetLocals
    /\ UNCHANGED <<live, meta, cache, lastSave, builds, failures,
                   auxVars, content>>


\* --------------------------------------------------- saveArtifactBundle
\* previouslyRestoredKey that never reads the meta-file
previouslyRestoredKey_unread(bundleMetaFile) == <<>>

\* Lines 199-201: the key in the meta-file, '' without one.
previouslyRestoredKey(bundleMetaFile) ==
    IF existsSync(bundleMetaFile) THEN Trim(readFileSync(bundleMetaFile)) ELSE <<>>

\* DeleteMetaFile that leaves the stale meta-file in place
DeleteMetaFile_skipped(bundleMetaFile, fails) == meta

\* Lines 193-195: with no matching files an existing meta-file is deleted
\* (tryDelete is best effort: `fails` says that the deletion failed).
DeleteMetaFile(bundleMetaFile, fails) ==
    IF existsSync(bundleMetaFile) /\ ~fails
    THEN [meta EXCEPT ![bundleMetaFile] = NoFile]
    ELSE meta

\* Line 213: fs.writeFileSync(bundleMetaFile, cacheKey)
writeFileSync(bundleMetaFile, key) == [meta EXCEPT ![bundleMetaFile] = key]

\* DeleteBundleFiles whose loop starts at the second matched file
DeleteBundleFiles_offByOne(files, failed) ==
    live \ {files[i] : i \in {j \in 2..Len(files) : tryDelete(files[j], failed)}}

\* Lines 216-218: tryDelete on every matched file; the live tree afterwards.
DeleteBundleFiles(files, failed) ==
    live \ {files[i] : i \in {j \in 1..Len(files) : tryDelete(files[j], failed)}}

\* Lines 216-218 on meta-files: the meta-files `m` without the matched ones
\* that tryDelete removed.
DeleteMatchedMeta(files, failed, m) ==
    [x \in DOMAIN m |->
        IF x \in Range(files) /\ tryDelete(x, failed) THEN NoFile ELSE m[x]]

\* the sets of deletions the environment may still let fail
FailChoices(files, budget) == {F \in SUBSET Range(files) : Cardinality(F) <= budget}

\* Lines 182-187: the body up to `await glob.create`.
saveArtifactBundle_call(bundle, artifactPath) ==
    /\ bpc' = [bpc EXCEPT ![bundle] = "glob"]
    /\ UNCHANGED <<cacheKey, calls, outcome>>

\* Lines 188-210: the glob settles; no files (190-197), an unchanged key
\* (204-207 and the deletions of 216-218), or the upload is issued (209-210).
saveArtifactBundle_globbed(bundle) ==
    LET bundleMetaFile == getBundleMetaFile(bundle)
        artifactPath == PatternOf(bundle)
    IN
    /\ bpc[bundle] = "glob"
    /\ enginePc # "loop"
    /\ \E files \in Glob(artifactPath) :
        /\ bundleFiles' = [bundleFiles EXCEPT ![bundle] = files]
        /\ IF Len(files) = 0
           THEN /\ \E fails \in {f \in BOOLEAN : f => (existsSync(bundleMetaFile) /\ failures < MaxFailures)} :
                     /\ meta' = DeleteMetaFile(bundleMetaFile, fails)
                     /\ failures' = IF fails THEN failures + 1 ELSE failures
                     /\ outcome' = [outcome EXCEPT ![bundle] =
                                      IF fails THEN "NoFilesMetaKept" ELSE "NoFiles"]
                /\ bpc' = [bpc EXCEPT ![bundle] = "done"]
                /\ UNCHANGED <<live, cacheKey, calls, delFailed>>
           ELSE LET key == createCacheKey(bundle, files) IN
                /\ cacheKey' = [cacheKey EXCEPT ![bundle] = key]
                /\ IF previouslyRestoredKey(bundleMetaFile) = key
                   THEN /\ \E failed \in FailChoices(files, MaxFailures - failures) :
                             /\ live' = DeleteBundleFiles(files, failed)
                             /\ delFailed' = [delFailed EXCEPT ![bundle] = failed]
                             /\ failures' = failures + Cardinality(failed)
                             /\ meta' = DeleteMatchedMeta(files, failed, meta)
                        /\ outcome' = [outcome EXCEPT ![bundle] = "NoChange"]
                        /\ bpc' = [bpc EXCEPT ![bundle] = "done"]
                        /\ UNCHANGED calls
                   ELSE /\ calls' = [calls EXCEPT ![bundle] = @ + 1]
                        /\ bpc' = [bpc EXCEPT ![bundle] = "saveCache"]
                        /\ UNCHANGED <<live, meta, outcome, delFailed, failures>>
    /\ UNCHANGED <<cache, enginePc, op, debug, idx, lastSave, builds,
                   auxVars, content>>

\* this.saveCache([artifactPath], cacheKey): how the upload can end.  A key
\* that already has an entry is refused; otherwise the upload succeeds or a
\* transport error occurs.  Every failure is logged and not raised.
SaveCacheResults(artifactPath, key) ==
    IF CacheEntries(artifactPath, key) # {}
    THEN {"UploadExists"}
    ELSE {"Uploaded"} \cup (IF failures < MaxFailures THEN {"UploadFailed"} ELSE {})

\* Lines 210-218: this.saveCache settles, the meta-file is written and the
\* matched files are deleted.
saveArtifactBundle_saved(bundle) ==
    LET bundleMetaFile == getBundleMetaFile(bundle)
        artifactPath == PatternOf(bundle)
    IN
    /\ bpc[bundle] = "saveCache"
    /\ enginePc # "loop"
    /\ \E result \in SaveCacheResults(artifactPath, cacheKey[bundle]) :
        LET spent == IF result = "UploadFailed" THEN failures + 1 ELSE failures IN
        /\ cache' = IF result = "Uploaded"
                    THEN cache \cup {Archive(artifactPath, cacheKey[bundle])}
                    ELSE cache
        /\ outcome' = [outcome EXCEPT ![bundle] = result]
        /\ \E failed \in FailChoices(bundleFiles[bundle], MaxFailures - spent) :
             /\ meta' = DeleteMatchedMeta(bundleFiles[bundle], failed,
                                          writeFileSync(bundleMetaFile, cacheKey[bundle]))
             /\ live' = DeleteBundleFiles(bundleFiles[bundle], failed)
             /\ delFailed' = [delFailed EXCEPT ![bundle] = failed]
             /\ failures' = spent + Cardinality(failed)
    /\ bpc' = [bpc EXCEPT ![bundle] = "done"]
    /\ UNCHANGED <<enginePc, op, debug, idx, bundleFiles, cacheKey, calls, lastSave,
                   builds,
                   auxVars, content>>

\* --------------------------------------------------- saveArtifactBundles
\* Lines 159 and 165-166: the first size report of beforeSave, then the
\* empty promise list and getArtifactBundles() in the head of the for loop.
\* An exception of the report leaves beforeSave, a parse error leaves
\* saveArtifactBundles.
saveArtifactBundles_enter(d) ==
    /\ enginePc = "idle"
    /\ enginePc' = IF reportGradleUserHomeSize_throws(d) THEN "threw"
                   ELSE IF JSONparse(artifactBundleDefinition) = SyntaxError
                   THEN "threw" ELSE "loop"
    /\ op' = "save"
    /\ debug' = d
    /\ idx' = 1
    /\ UNCHANGED <<live, meta, cache, bpc, bundleFiles, cacheKey, outcome, calls,
                   delFailed, lastSave, builds, failures,
                   auxVars, content>>

\* saveArtifactBundles_iter without the `await p` of the debugging mode
saveArtifactBundles_iter_noAwait ==
    /\ enginePc = "loop"
    /\ op = "save"
    /\ saveArtifactBundle_call(getArtifactBundles[idx][1], getArtifactBundles[idx][2])
    /\ enginePc' = AfterBundle /\ idx' = idx + 1
    /\ UNCHANGED <<live, meta, cache, op, debug, bundleFiles, delFailed, lastSave,
                   builds, failures,
                   auxVars, content>>

\* Lines 166-173: one iteration of the loop.
saveArtifactBundles_iter ==
    /\ enginePc = "loop"
    /\ op = "save"
    /\ saveArtifactBundle_call(getArtifactBundles[idx][1], getArtifactBundles[idx][2])
    /\ IF debug
       THEN enginePc' = "awaitP" /\ idx' = idx
       ELSE enginePc' = AfterBundle /\ idx' = idx + 1
    /\ UNCHANGED <<live, meta, cache, op, debug, bundleFiles, delFailed, lastSave,
                   builds, failures,
                   auxVars, content>>

saveArtifactBundles_awaitP == AwaitP("save")

saveArtifactBundles_awaitAll == AwaitAll("save")

\* Lines 158-162: beforeSave gets control back from saveArtifactBundles; what
\* this run matched and uploaded is remembered for the comparison with the
\* next saveAll.
beforeSave ==
    /\ enginePc \in {"returned", "threw"}
    /\ op = "save"
    /\ \A b \in Bundles : ~InFlight(b)
    /\ enginePc' = "idle"
    /\ lastSave' = [b \in Bundles |->
                      IF bpc[b] = "done"
                      THEN [known |-> TRUE, files |-> bundleFiles[b], calls |-> calls[b],
                            stopped |-> "no"]
                      ELSE NoSave]
    /\ ResetLocals
    /\ UNCHANGED <<live, meta, cache, builds, failures,
                   auxVars, content>>

\* ---------------------------------------------------------- specification
Next ==
    \/ \E b \in Bundles, f \in FileNames : BuildTool(b, f)
    \/ \E d \in BOOLEAN : restoreArtifactBundles_enter(d)
    \/ restoreArtifactBundles_iter
    \/ restoreArtifactBundles_awaitP
    \/ restoreArtifactBundles_awaitAll
    \/ \E b \in Bundles : restoreArtifactBundle_resume(b)
    \/ afterRestore
    \/ \E d \in BOOLEAN : saveArtifactBundles_enter(d)
    \/ saveArtifactBundles_iter
    \/ saveArtifactBundles_awaitP
    \/ saveArtifactBundles_awaitAll
    \/ \E b \in Bundles : saveArtifactBundle_globbed(b)
    \/ \E b \in Bundles : saveArtifactBundle_saved(b)
    \/ beforeSave

Spec == Init /\ [][Next]_vars

\* The workflow is edited between two jobs: the 'cache-artifact-bundles'
\* input of the next job is another text.
Configure(definition) ==
    /\ enginePc = "idle"
    /\ artifactBundleDefinition # definition
    /\ artifactBundleDefinition' = definition
    /\ UNCHANGED <<live, meta, cache, enginePc, op, debug, idx, bpc, bundleFiles,
                   cacheKey, outcome, calls, delFailed, lastSave, builds, failures,
                   content, start, du, gateVars>>

\* the bundle engine under well-formed and malformed inputs
NextConfig ==
    \/ Next
    \/ \E definition \in {"bundles", "malformed"} : Configure(definition)

SpecConfig == Init /\ [][NextConfig]_vars

\* The build tool rewrites an existing file of a bundle directory in place:
\* same path, other bytes.
ModifyFile(b, f) ==
    /\ enginePc = "idle"
    /\ builds < MaxBuilds
    /\ FilePath(b, f) \in live
    /\ content' = [content EXCEPT ![FilePath(b, f)] = @ + 1]
    /\ builds' = builds + 1
    /\ UNCHANGED <<live, meta, cache, enginePc, op, debug, idx, bpc, bundleFiles,
                   cacheKey, outcome, calls, delFailed, lastSave, failures,
                   auxVars>>

\* ----------------------------------------- saveArtifactBundle, statement-wise
\* Lines 210-218 run in one piece once the upload has settled, but the host
\* process can be terminated between any two statements.  Here the piece is
\* taken statement by statement.

\* no bundle is between two statements of lines 210-218: the event loop is
\* free to resume another promise
EventLoopFree == \A b \in Bundles : bpc[b] \notin {"uploaded", "written"}

\* Line 210: this.saveCache settles.
saveArtifactBundle_uploaded(bundle) ==
    /\ bpc[bundle] = "saveCache"
    /\ enginePc # "loop"
    /\ EventLoopFree
    /\ \E result \in SaveCacheResults(PatternOf(bundle), cacheKey[bundle]) :
        /\ cache' = IF result = "Uploaded"
                    THEN cache \cup {Archive(PatternOf(bundle), cacheKey[bundle])}
                    ELSE cache
        /\ outcome' = [outcome EXCEPT ![bundle] = result]
        /\ failures' = IF result = "UploadFailed" THEN failures + 1 ELSE failures
    /\ bpc' = [bpc EXCEPT ![bundle] = "uploaded"]
    /\ UNCHANGED <<live, meta, enginePc, op, debug, idx, bundleFiles, cacheKey, calls,
                   delFailed, lastSave, builds, auxVars, content>>

\* the statement of line 213 left out
saveArtifactBundle_written_skipped(bundle) ==
    /\ bpc[bundle] = "uploaded"
    /\ bpc' = [bpc EXCEPT ![bundle] = "written"]
    /\ UNCHANGED <<live, meta, cache, enginePc, op, debug, idx, bundleFiles, cacheKey,
                   outcome, calls, delFailed, lastSave, builds, failures, auxVars,
                   content>>

\* Lines 212-213: the meta-file is written.
saveArtifactBundle_written(bundle) ==
    /\ bpc[bundle] = "uploaded"
    /\ meta' = writeFileSync(getBundleMetaFile(bundle), cacheKey[bundle])
    /\ bpc' = [bpc EXCEPT ![bundle] = "written"]
    /\ UNCHANGED <<live, cache, enginePc, op, debug, idx, bundleFiles, cacheKey,
                   outcome, calls, delFailed, lastSave, builds, failures, auxVars,
                   content>>

\* the loop of lines 216-218 started as soon as the upload is issued
saveArtifactBundle_deleted_early(bundle) ==
    /\ bpc[bundle] \in {"saveCache", "written"}
    /\ \E failed \in FailChoices(bundleFiles[bundle], MaxFailures - failures) :
         /\ live' = DeleteBundleFiles(bundleFiles[bundle], failed)
         /\ meta' = DeleteMatchedMeta(bundleFiles[bundle], failed, meta)
         /\ delFailed' = [delFailed EXCEPT ![bundle] = failed]
         /\ failures' = failures + Cardinality(failed)
    /\ bpc' = [bpc EXCEPT ![bundle] = "done"]
    /\ UNCHANGED <<cache, enginePc, op, debug, idx, bundleFiles, cacheKey,
                   outcome, calls, lastSave, builds, auxVars, content>>

\* Lines 216-218: the matched files are deleted.
saveArtifactBundle_deleted(bundle) ==
    /\ bpc[bundle] = "written"
    /\ \E failed \in FailChoices(bundleFiles[bundle], MaxFailures - failures) :
         /\ live' = DeleteBundleFiles(bundleFiles[bundle], failed)
         /\ meta' = DeleteMatchedMeta(bundleFiles[bundle], failed, meta)
         /\ delFailed' = [delFailed EXCEPT ![bundle] = failed]
         /\ failures' = failures + Cardinality(failed)
    /\ bpc' = [bpc EXCEPT ![bundle] = "done"]
    /\ UNCHANGED <<cache, enginePc, op, debug, idx, bundleFiles, cacheKey,
                   outcome, calls, lastSave, builds, auxVars, content>>

\* The host process is terminated during a saveAll (one of the failures the
\* environment injects): every local is lost, the files, the meta-files and
\* the cache stay as they are.  What is remembered of a bundle is where its
\* save was stopped.
Terminate ==
    /\ op = "save"
    /\ enginePc # "idle"
    /\ failures < MaxFailures
    /\ failures' = failures + 1
    /\ enginePc' = "idle"
    /\ lastSave' = [b \in Bundles |->
                      IF bpc[b] \in {"uploaded", "written", "done"}
                      THEN [known |-> TRUE, files |-> bundleFiles[b], calls |-> calls[b],
                            stopped |-> IF bpc[b] = "done" THEN "no" ELSE bpc[b]]
                      ELSE NoSave]
    /\ ResetLocals
    /\ UNCHANGED <<live, meta, cache, builds, auxVars, content>>

\* the bundle engine in its concurrent mode, with the statements of lines
\* 210-218 as steps and a host that may terminate the process
NextCrash ==
    \/ \E b \in Bundles, f \in FileNames : BuildTool(b, f)
    \/ restoreArtifactBundles_enter(FALSE)
    \/ restoreArtifactBundles_iter
    \/ restoreArtifactBundles_awaitAll
    \/ \E b \in Bundles : restoreArtifactBundle_resume(b)
    \/ afterRestore
    \/ saveArtifactBundles_enter(FALSE)
    \/ saveArtifactBundles_iter
    \/ saveArtifactBundles_awaitAll
    \/ \E b \in Bundles : EventLoopFree /\ saveArtifactBundle_globbed(b)
    \/ \E b \in Bundles : saveArtifactBundle_uploaded(b)
    \/ \E b \in Bundles : saveArtifactBundle_written(b)
    \/ \E b \in Bundles : saveArtifactBundle_deleted(b)
    \/ beforeSave
    \/ Terminate

\* one failure in all: a termination or an I/O failure
InitCrash ==
    /\ live = {}
    /\ meta = [b \in {getBundleMetaFile(n) : n \in Bundles} |-> NoFile]
    /\ cache = {}
    /\ enginePc = "idle"
    /\ op = "none"
    /\ debug = FALSE
    /\ idx = 1
    /\ bpc = [b \in Bundles |-> "init"]
    /\ bundleFiles = [b \in Bundles |-> <<>>]
    /\ cacheKey = [b \in Bundles |-> <<>>]
    /\ outcome = [b \in Bundles |-> "none"]
    /\ calls = [b \in Bundles |-> 0]
    /\ delFailed = [b \in Bundles |-> {}]
    /\ lastSave = [b \in Bundles |-> NoSave]
    /\ builds = 0
    /\ failures = MaxFailures - 1
    /\ artifactBundleDefinition = "bundles"
    /\ content = [p \in AllPaths |-> 0]
    /\ start = Snapshot
    /\ du = "ok"
    /\ processEnv = {}
    /\ savedState = [i \in Steps |-> {}]
    /\ inputs = [i \in Steps |-> [disabled |-> FALSE, readOnly |-> FALSE]]
    /\ stepPc = [i \in Steps |-> "main"]
    /\ did = [i \in Steps |-> NothingDone]

SpecCrash == InitCrash /\ [][NextCrash]_vars

\* ------------------------------------------- batches from an observed state
\* The state a batch is about to start from is recorded.
Observe ==
    /\ enginePc = "idle"
    /\ start # Snapshot
    /\ start' = Snapshot
    /\ UNCHANGED <<live, meta, cache, enginePc, op, debug, idx, bpc, bundleFiles,
                   cacheKey, outcome, calls, delFailed, lastSave, builds, failures,
                   artifactBundleDefinition, content, du, gateVars>>

\* the bundle engine, every batch of which starts from the recorded state
NextOrder ==
    \/ \E b \in Bundles, f \in FileNames : BuildTool(b, f)
    \/ Observe
    \/ \E d \in BOOLEAN : start = Snapshot /\ restoreArtifactBundles_enter(d)
    \/ restoreArtifactBundles_iter
    \/ restoreArtifactBundles_awaitP
    \/ restoreArtifactBundles_awaitAll
    \/ \E b \in Bundles : restoreArtifactBundle_resume(b)
    \/ afterRestore
    \/ \E d \in BOOLEAN : start = Snapshot /\ saveArtifactBundles_enter(d)
    \/ saveArtifactBundles_iter
    \/ saveArtifactBundles_awaitP
    \/ saveArtifactBundles_awaitAll
    \/ \E b \in Bundles : saveArtifactBundle_globbed(b)
    \/ \E b \in Bundles : saveArtifactBundle_saved(b)
    \/ beforeSave

SpecOrder == Init /\ [][NextOrder]_vars

\* the bundle engine with a build tool that also modifies files in place
NextContent ==
    \/ Next
    \/ \E b \in Bundles, f \in FileNames : ModifyFile(b, f)

SpecContent == Init /\ [][NextContent]_vars

\* The job runs on another host image: 'du' exits with 0, exits with another
\* code, or is not installed.
Host(result) ==
    /\ enginePc = "idle"
    /\ du # result
    /\ du' = result
    /\ UNCHANGED <<live, meta, cache, enginePc, op, debug, idx, bpc, bundleFiles,
                   cacheKey, outcome, calls, delFailed, lastSave, builds, failures,
                   artifactBundleDefinition, content, start, gateVars>>

\* the bundle engine on hosts with and without a working 'du'
NextProbe ==
    \/ Next
    \/ \E result \in {"ok", "nonzero", "missing"} : Host(result)

SpecProbe == Init /\ [][NextProbe]_vars

\* ------------------------------------------------------ restore() and save()
\* The steps of one job that use the action: their main parts run restore()
\* in the order of the steps, their post parts run save() in the reverse
\* order once every main part is over.  The exported variables are shared by
\* the steps; the saved state of a step is seen by its own post part only.
\* GradleStateCache ('./cache-base') is taken by its calls: init, restore and
\* save, each of the two awaited calls ending normally or with an exception.

bundleVars == <<live, meta, cache, enginePc, op, debug, idx, bpc, bundleFiles,
                cacheKey, outcome, calls, delFailed, lastSave, builds, failures,
                artifactBundleDefinition, start, du, content>>

MainTurn(i) ==
    /\ stepPc[i] = "main"
    /\ \A j \in Steps : j < i => stepPc[j] \notin {"main", "restoring"}

PostTurn(i) ==
    /\ stepPc[i] = "post"
    /\ \A j \in Steps : stepPc[j] \notin {"main", "restoring"}
    /\ \A j \in Steps : j > i => stepPc[j] = "end"

\* shouldRestoreCaches that does not look at the exported variable
shouldRestoreCaches_everyStep(isCacheDisabled) == ~isCacheDisabled

\* Lines 54-65
shouldRestoreCaches(isCacheDisabled) ==
    IF isCacheDisabled THEN FALSE
    ELSE IF CACHE_RESTORED_VAR \in processEnv THEN FALSE
    ELSE TRUE

\* shouldSaveCaches that does not look at the saved state
shouldSaveCaches_everyStep(isCacheDisabled, state) == ~isCacheDisabled

\* Lines 67-79
shouldSaveCaches(isCacheDisabled, state) ==
    IF isCacheDisabled THEN FALSE
    ELSE IF CACHE_RESTORED_VAR \notin state THEN FALSE
    ELSE TRUE

\* Lines 10-22: restore() up to `await gradleStateCache.restore`.
restore_enter(i, isCacheDisabled, isCacheReadOnly) ==
    /\ MainTurn(i)
    /\ inputs' = [inputs EXCEPT ![i] = [disabled |-> isCacheDisabled,
                                       readOnly |-> isCacheReadOnly]]
    /\ IF ~shouldRestoreCaches(isCacheDisabled)
       THEN /\ did' = [did EXCEPT ![i].info =
                         {IF isCacheDisabled
                          THEN "Cache is disabled: will not restore state from previous builds."
                          ELSE "Cache only restored on first action step."}]
            /\ stepPc' = [stepPc EXCEPT ![i] = "post"]
            /\ UNCHANGED savedState
       ELSE /\ did' = [did EXCEPT ![i].init = TRUE, ![i].restore = "called"]
            /\ savedState' = [savedState EXCEPT ![i] = @ \cup {GRADLE_USER_HOME}]
            /\ stepPc' = [stepPc EXCEPT ![i] = "restoring"]
    /\ UNCHANGED <<processEnv, bundleVars>>

\* Lines 22-30: gradleStateCache.restore settles.  After a normal end the
\* listener is saved, the variable exported and the restored state saved; an
\* exception leaves restore() at line 22.
restore_resume(i) ==
    /\ stepPc[i] = "restoring"
    /\ \/ /\ did' = [did EXCEPT ![i].restore = "ok"]
          /\ savedState' = [savedState EXCEPT ![i] =
                               @ \cup {CACHE_LISTENER, CACHE_RESTORED_VAR}]
          /\ processEnv' = processEnv \cup {CACHE_RESTORED_VAR}
       \/ /\ did' = [did EXCEPT ![i].restore = "threw"]
          /\ UNCHANGED <<savedState, processEnv>>
    /\ stepPc' = [stepPc EXCEPT ![i] = "post"]
    /\ UNCHANGED <<inputs, bundleVars>>

\* Lines 33-49: save() up to `await ... GradleStateCache(...).save`.
save_enter(i) ==
    /\ PostTurn(i)
    /\ IF ~shouldSaveCaches(inputs[i].disabled, savedState[i])
       THEN /\ did' = [did EXCEPT ![i].info = @ \cup
                         {IF inputs[i].disabled
                          THEN "Cache is disabled: will not save state for later builds."
                          ELSE "Cache will only be saved in final post-action step."}]
            /\ stepPc' = [stepPc EXCEPT ![i] = "end"]
       ELSE IF inputs[i].readOnly
       THEN /\ did' = [did EXCEPT ![i].info = @ \cup
                         {"Cache is read-only: will not save state for use in subsequent builds."},
                                  ![i].report = @ + 1]
            /\ stepPc' = [stepPc EXCEPT ![i] = "end"]
       ELSE /\ did' = [did EXCEPT ![i].save = "called"]
            /\ stepPc' = [stepPc EXCEPT ![i] = "saving"]
    /\ UNCHANGED <<processEnv, savedState, inputs, bundleVars>>

\* Lines 46-51: GradleStateCache.save settles; the caching report is logged
\* after a normal end.
save_resume(i) ==
    /\ stepPc[i] = "saving"
    /\ \/ did' = [did EXCEPT ![i].save = "ok", ![i].report = @ + 1]
       \/ did' = [did EXCEPT ![i].save = "threw"]
    /\ stepPc' = [stepPc EXCEPT ![i] = "end"]
    /\ UNCHANGED <<processEnv, savedState, inputs, bundleVars>>

NextGate ==
    \/ \E i \in Steps, isCacheDisabled \in BOOLEAN, isCacheReadOnly \in BOOLEAN :
          restore_enter(i, isCacheDisabled, isCacheReadOnly)
    \/ \E i \in Steps : restore_resume(i)
    \/ \E i \in Steps : save_enter(i)
    \/ \E i \in Steps : save_resume(i)

SpecGate == Init /\ [][NextGate]_vars

\* the bundle engine under mappings whose last pattern is, or is not, the
\* directory of the meta-files
NextOverlap ==
    \/ Next
    \/ \E definition \in {"bundles", "overlap"} : Configure(definition)

SpecOverlap == Init /\ [][NextOverlap]_vars

TypeOK ==
    /\ live \subseteq AllPaths
    /\ enginePc \in {"idle", "loop", "awaitP", "awaitAll", "returned", "threw"}
    /\ op \in {"none", "restore", "save"}
    /\ debug \in BOOLEAN
    /\ idx \in 1..(NumBundles + 1)
    /\ \A b \in Bundles :
         /\ bpc[b] \in {"init", "glob", "saveCache", "uploaded", "written",
                        "restoreCache", "done", "failed"}
         /\ calls[b] \in 0..1
         /\ delFailed[b] \subseteq AllPaths \cup DOMAIN meta
    /\ builds \in 0..MaxBuilds
    /\ failures \in 0..MaxFailures


\* ------------------------------------------------------------- properties
MetaOf(b) == meta[getBundleMetaFile(b)]
MatchedFiles(b) == Range(bundleFiles[b])
Uploaded(b, key) == CacheEntries(PatternOf(b), key) # {}
SaveDone(b) == op = "save" /\ bpc[b] = "done"
RestoreDone(b) == op = "restore" /\ bpc[b] = "done"
EngineEnded == enginePc \in {"returned", "threw"}
SameFilesAsLastSave(b) == lastSave[b].known /\ lastSave[b].files = bundleFiles[b]
NoFailure(b) == delFailed[b] = {} /\ outcome[b] \notin {"UploadFailed", "NoFilesMetaKept", "Error"}

\* one step of a running saveAll
SaveStep ==
    \/ saveArtifactBundles_iter
    \/ saveArtifactBundles_awaitP
    \/ saveArtifactBundles_awaitAll
    \/ \E b \in Bundles : saveArtifactBundle_globbed(b)
    \/ \E b \in Bundles : saveArtifactBundle_saved(b)

\* C1, as stated: when a bundle's save has matched the same non-empty file
\* sequence as the previous saveAll, exactly one upload was issued for the
\* bundle over the two runs, and every matched file was deleted from the live
\* tree (by the best-effort deletion of lines 216-218: only a file whose
\* deletion failed may be left).
C1_ExactlyOneUpload ==
    \A b \in Bundles :
        (SaveDone(b) /\ SameFilesAsLastSave(b) /\ bundleFiles[b] # <<>>) =>
            /\ lastSave[b].calls + calls[b] = 1
            /\ MatchedFiles(b) \cap live \subseteq delFailed[b]

\* C1, amended: when a bundle's save has matched the same file sequence as
\* the previous saveAll, this second run issued no upload, so at most one
\* upload was issued over the two runs, and every matched file is gone from
\* the live tree except those whose best-effort deletion failed.
C1_SecondSaveSkipsUpload ==
    \A b \in Bundles :
        (SaveDone(b) /\ SameFilesAsLastSave(b)) =>
            /\ calls[b] = 0
            /\ lastSave[b].calls + calls[b] <= 1
            /\ MatchedFiles(b) \cap live \subseteq delFailed[b]

\* C1 witness: a second save of the same non-empty files after a first one
\* that uploaded; it skipped the upload and emptied the bundle directory.
C1_Witness ==
    \E b \in Bundles :
        /\ SaveDone(b) /\ SameFilesAsLastSave(b) /\ bundleFiles[b] # <<>>
        /\ lastSave[b].calls = 1 /\ calls[b] = 0 /\ outcome[b] = "NoChange"
        /\ MatchedFiles(b) \cap live = {}

\* C2: round trip.  Once saveAll has returned, a bundle that matched a
\* non-empty file sequence has its key in the meta-file and an entry under
\* that key in the cache; and a later restore of the bundle, with the
\* meta-file present, asked for that key, was answered with the entry and
\* left every file of the sequence in the live tree.
C2_RoundTrip ==
    \A b \in Bundles :
        /\ (op = "save" /\ enginePc = "returned" /\ bundleFiles[b] # <<>>) =>
              /\ MetaOf(b) = cacheKey[b]
              /\ Uploaded(b, cacheKey[b])
        /\ (RestoreDone(b) /\ lastSave[b].known /\ lastSave[b].files # <<>>
                /\ existsSync(getBundleMetaFile(b))) =>
              /\ cacheKey[b] = createCacheKey(b, lastSave[b].files)
              /\ outcome[b] = "Restored"
              /\ Range(lastSave[b].files) \subseteq live

\* C3: restore isolation.  When a restoreAll batch has ended and the restore
\* of a bundle failed, the batch returned normally and every other bundle's
\* restore was started and completed.
C3_RestoreIsolation ==
    (op = "restore" /\ EngineEnded /\ \E b \in Bundles : bpc[b] = "failed") =>
        /\ enginePc = "returned"
        /\ \A b \in Bundles : bpc[b] # "failed" => bpc[b] = "done"

\* C4: marker validity.  A meta-file that exists holds a key under which an
\* upload for its bundle succeeded earlier (the cache only gains entries by
\* successful uploads and never loses one).
C4_MarkerValid ==
    \A b \in Bundles : existsSync(getBundleMetaFile(b)) => Uploaded(b, MetaOf(b))

\* C5: empty live bundle after save.  When the save of a bundle has completed
\* and none of its deletions failed, no file that its glob matched is in the
\* live tree, with or without an upload.
C5_LiveEmptyAfterSave ==
    \A b \in Bundles :
        (SaveDone(b) /\ delFailed[b] = {}) => MatchedFiles(b) \cap live = {}

\* C5 witness: a completed save that matched files, found the key unchanged,
\* issued no upload and left none of the files.
C5_Witness ==
    \E b \in Bundles :
        /\ SaveDone(b) /\ delFailed[b] = {} /\ bundleFiles[b] # <<>>
        /\ calls[b] = 0
        /\ MatchedFiles(b) \cap live = {}

C7_NoMetaFileRestore ==
    /\ [](\A b \in Bundles :
            (op = "restore" /\ bpc[b] # "init" /\ ~existsSync(getBundleMetaFile(b))) =>
                bpc[b] = "done" /\ outcome[b] = "NoMetaFile" /\ calls[b] = 0)
    /\ [][\A b \in Bundles :
            (op = "restore" /\ bpc[b] = "init" /\ bpc'[b] # "init"
                 /\ ~existsSync(getBundleMetaFile(b))) =>
                live' = live /\ meta' = meta /\ cache' = cache]_vars

\* C7 witness: in one batch a bundle without meta-file reported NoMetaFile
\* while another bundle's restore was issued.
C7_Witness ==
    \E b1, b2 \in Bundles :
        /\ RestoreDone(b1) /\ outcome[b1] = "NoMetaFile" /\ calls[b1] = 0
        /\ calls[b2] = 1

\* C8: batch completion.  When restoreAll or saveAll has given control back
\* to its caller, no bundle's restore or save is still in flight, and after a
\* normal return every bundle's operation has completed.
C8_BatchCompletion ==
    EngineEnded =>
        /\ \A b \in Bundles : ~InFlight(b)
        /\ enginePc = "returned" => \A b \in Bundles : bpc[b] = "done"

\* C9: debug-sequential mode.  With the debug flag set at most one bundle
\* operation is in flight, and a bundle has been started only if every bundle
\* before it in enumeration order has settled.
C9_DebugSequential ==
    debug =>
        /\ Cardinality({b \in Bundles : InFlight(b)}) <= 1
        /\ \A i, j \in 1..NumBundles :
              (i < j /\ bpc[getArtifactBundles[j][1]] # "init") =>
                  Settled(getArtifactBundles[i][1])

\* C9 witness: in debug mode the first bundle's save is complete while the
\* second bundle's is in flight.
C9_Witness ==
    /\ debug /\ op = "save"
    /\ bpc[getArtifactBundles[1][1]] = "done"
    /\ InFlight(getArtifactBundles[2][1])

\* C10: save failures are non-fatal and isolated.  A saveAll never raises and
\* no bundle's save is rejected; a running saveAll can always take a step;
\* and once it has returned every bundle's save is complete, and every bundle
\* without a failure of its own that matched files has its key in the
\* meta-file, an entry under that key in the cache when it uploaded, and none
\* of its matched files left.
C10_SaveNonFatal ==
    op = "save" =>
        /\ enginePc # "threw"
        /\ \A b \in Bundles : bpc[b] # "failed"
        /\ enginePc \in {"loop", "awaitP", "awaitAll"} => ENABLED SaveStep
        /\ enginePc = "returned" =>
              \A b \in Bundles :
                  /\ bpc[b] = "done"
                  /\ (NoFailure(b) /\ bundleFiles[b] # <<>>) =>
                        /\ MetaOf(b) = cacheKey[b]
                        /\ outcome[b] \in {"Uploaded", "UploadExists", "NoChange"}
                        /\ (calls[b] = 1) = (outcome[b] # "NoChange")
                        /\ outcome[b] \in {"Uploaded", "UploadExists"} => Uploaded(b, cacheKey[b])
                        /\ MatchedFiles(b) \cap live = {}

\* C10 witness: a saveAll has returned in which one bundle's upload or
\* deletion failed and another bundle was uploaded, recorded and emptied.
C10_Witness ==
    /\ op = "save" /\ enginePc = "returned"
    /\ \E b1, b2 \in Bundles :
          /\ b1 # b2
          /\ ~NoFailure(b1)
          /\ outcome[b2] = "Uploaded" /\ MetaOf(b2) = cacheKey[b2]
          /\ Uploaded(b2, cacheKey[b2])
          /\ MatchedFiles(b2) \cap live = {}

\* C11: configuration errors abort before any bundle work.  With a malformed
\* bundle mapping a restoreAll or saveAll that starts fails at once with the
\* parse error, in a step that leaves the meta-files, the cache, the live
\* tree and every bundle untouched; and while it is ending no bundle step has
\* been performed and no call to the cache service has been issued.
C11_ConfigErrorAborts ==
    /\ [](artifactBundleDefinition = "malformed" =>
            /\ enginePc \in {"idle", "threw"}
            /\ \A b \in Bundles : bpc[b] = "init" /\ calls[b] = 0 /\ outcome[b] = "none")
    /\ [][(artifactBundleDefinition = "malformed" /\ enginePc' # enginePc) =>
            /\ enginePc = "idle" => enginePc' = "threw"
            /\ meta' = meta /\ cache' = cache /\ live' = live]_vars

\* C11 witness: a saveAll has failed on a malformed mapping while matched
\* files are in the live tree and a meta-file of an earlier job exists.
C11_Witness ==
    /\ artifactBundleDefinition = "malformed"
    /\ op = "save" /\ enginePc = "threw"
    /\ live # {}
    /\ \E b \in Bundles : existsSync(getBundleMetaFile(b))

\* the bytes of a file the bundle's meta-file key stands for differ from the
\* bytes stored in the cache under that key
ContentChanged(b, files) ==
    \E e \in CacheEntries(PatternOf(b), MetaOf(b)) :
        /\ e.files = Range(files)
        /\ \E p \in e.files : content[p] # e.data[p]

\* C12: name-only change detection.  The key a save computes is made of the
\* key prefix, the bundle name and the digest of the root-relative paths of
\* the matched files, in their order; and when a save matches the same path
\* sequence as the previous save while the bytes of a file differ from those
\* in the cache under the meta-file's key, the save computes the key in the
\* meta-file, issues no upload and leaves meta-files and cache unchanged.
C12_NameOnlyChangeDetection ==
    /\ [](\A b \in Bundles :
            (op = "save" /\ bundleFiles[b] # <<>>) =>
                cacheKey[b] = <<getCacheKeyPrefix, ToString(b), "-",
                                ToString(hashFileNames(
                                    [i \in 1..Len(bundleFiles[b]) |->
                                        Relative(GradleUserHome, bundleFiles[b][i])]))>>)
    /\ [][\A b \in Bundles :
            (op = "save" /\ bpc[b] = "glob" /\ bpc'[b] # "glob"
                 /\ bundleFiles'[b] # <<>>
                 /\ lastSave[b].known /\ lastSave[b].files = bundleFiles'[b]
                 /\ ContentChanged(b, bundleFiles'[b])) =>
                /\ cacheKey'[b] = MetaOf(b)
                /\ calls'[b] = 0 /\ outcome'[b] = "NoChange"
                /\ meta' = meta /\ cache' = cache]_vars

\* C12 witness: a save has matched the files of the previous save, one of
\* them rewritten since it was restored, found no change, uploaded nothing
\* and deleted the files.
C12_Witness ==
    \E b \in Bundles :
        /\ SaveDone(b) /\ SameFilesAsLastSave(b) /\ bundleFiles[b] # <<>>
        /\ ContentChanged(b, bundleFiles[b])
        /\ outcome[b] = "NoChange" /\ calls[b] = 0
        /\ MetaOf(b) = cacheKey[b]
        /\ MatchedFiles(b) \cap live = {}

\* how an upload can have ended
UploadResults == {"Uploaded", "UploadExists", "UploadFailed"}

\* C13: upload-before-delete ordering.  In the save of a bundle that issued
\* an upload (its key differs from the previous key): until the upload has
\* completed, and after it until the meta-file is written, every matched file
\* is in the live tree and the meta-file does not hold the new key; once the
\* meta-file holds it the upload has completed, and the matched files are
\* still all there until the deletions, which come last.
C13_UploadWriteDelete ==
    \A b \in Bundles :
        (op = "save" /\ calls[b] = 1) =>
            /\ bpc[b] \in {"saveCache", "uploaded", "written", "done"}
            /\ bpc[b] = "saveCache" =>
                  /\ outcome[b] = "none"
                  /\ MetaOf(b) # cacheKey[b]
                  /\ MatchedFiles(b) \subseteq live
            /\ bpc[b] = "uploaded" =>
                  /\ outcome[b] \in UploadResults
                  /\ MetaOf(b) # cacheKey[b]
                  /\ MatchedFiles(b) \subseteq live
            /\ bpc[b] = "written" =>
                  /\ outcome[b] \in UploadResults
                  /\ MetaOf(b) = cacheKey[b]
                  /\ MatchedFiles(b) \subseteq live
            /\ bpc[b] = "done" =>
                  /\ outcome[b] \in UploadResults
                  /\ MetaOf(b) = cacheKey[b]
                  /\ MatchedFiles(b) \cap live \subseteq delFailed[b]

\* C13 witness: the upload of a bundle has succeeded and its meta-file holds
\* the new key while every matched file is still in the live tree.
C13_Witness ==
    \E b \in Bundles :
        /\ op = "save" /\ calls[b] = 1 /\ bpc[b] = "written"
        /\ outcome[b] = "Uploaded" /\ Uploaded(b, cacheKey[b])
        /\ MetaOf(b) = cacheKey[b]
        /\ bundleFiles[b] # <<>> /\ MatchedFiles(b) \subseteq live

\* the previous saveAll was terminated when bundle b was at `point`, and this
\* save has matched the paths that one had matched
StoppedAt(b, point) ==
    /\ lastSave[b].known /\ lastSave[b].stopped = point
    /\ lastSave[b].files = bundleFiles[b]

\* C17: crash safety of save.  A termination changes neither the meta-files
\* nor the live tree.  After a termination between the meta-file write and
\* the deletions, the next save of the bundle that matches the same paths
\* finds no change, issues no upload and deletes the matched files.  After a
\* termination between the upload and the meta-file write, the meta-file
\* does not hold the uploaded key and the matched files are in the live tree;
\* the next save of the same paths issues the upload again, writes the
\* meta-file and deletes the files.
C17_CrashSafety ==
    /\ [](\A b \in Bundles :
            /\ (SaveDone(b) /\ StoppedAt(b, "written")) =>
                  /\ outcome[b] = "NoChange" /\ calls[b] = 0
                  /\ MatchedFiles(b) \cap live \subseteq delFailed[b]
            /\ (SaveDone(b) /\ StoppedAt(b, "uploaded")) =>
                  /\ outcome[b] \in UploadResults /\ calls[b] = 1
                  /\ MetaOf(b) = cacheKey[b]
                  /\ MatchedFiles(b) \cap live \subseteq delFailed[b])
    /\ [][\A b \in Bundles :
            (op = "save" /\ enginePc' = "idle" /\ InFlight(b)) =>
                /\ meta' = meta /\ live' = live
                /\ bpc[b] = "uploaded" =>
                      /\ MetaOf(b) # cacheKey[b]
                      /\ MatchedFiles(b) \subseteq live'
                      /\ lastSave'[b].stopped = "uploaded"
                /\ bpc[b] = "written" =>
                      /\ meta'[getBundleMetaFile(b)] = cacheKey[b]
                      /\ MatchedFiles(b) \subseteq live'
                      /\ lastSave'[b].stopped = "written"]_vars

\* C17 witness: a save terminated after the meta-file write was followed by a
\* save of the same paths that found no change, uploaded nothing and deleted
\* the files.
C17_Witness ==
    \E b \in Bundles :
        /\ SaveDone(b) /\ StoppedAt(b, "written") /\ bundleFiles[b] # <<>>
        /\ outcome[b] = "NoChange" /\ calls[b] = 0
        /\ MatchedFiles(b) \cap live = {}

\* C14: exact-key restore.  The restore of a bundle with a meta-file issues
\* one call to the cache service, for the key in the meta-file.  When the call
\* is answered, the live tree gains the files of the entry stored under
\* exactly that key for the bundle's resolved path; when there is no such
\* entry, whatever else the cache holds, the answer is NotFound and the live
\* tree stays as it is.  The meta-files and the cache are left unchanged.
C14_ExactKeyRestore ==
    /\ [](\A b \in Bundles :
            (op = "restore" /\ bpc[b] # "init" /\ existsSync(getBundleMetaFile(b))) =>
                /\ calls[b] = 1
                /\ cacheKey[b] = MetaOf(b))
    /\ [][\A b \in Bundles :
            (op = "restore" /\ bpc[b] = "restoreCache" /\ bpc'[b] = "done") =>
                /\ meta' = meta /\ cache' = cache /\ calls' = calls
                /\ IF \E e \in cache : e.key = MetaOf(b) /\ e.path = getArtifactBundles[b][2]
                   THEN /\ outcome'[b] = "Restored"
                        /\ \E e \in cache :
                              /\ e.key = MetaOf(b) /\ e.path = getArtifactBundles[b][2]
                              /\ live' = live \cup e.files
                   ELSE /\ outcome'[b] = "NotFound"
                        /\ live' = live]_vars

\* C14 witness: the cache has answered NotFound to the one restore call of a
\* bundle, issued for the key in its meta-file.
C14_Witness ==
    \E b \in Bundles :
        /\ RestoreDone(b) /\ existsSync(getBundleMetaFile(b))
        /\ calls[b] = 1 /\ cacheKey[b] = MetaOf(b)
        /\ outcome[b] = "NotFound"

\* The debug-sequential execution (lines 117-119) of restoreArtifactBundle
\* on bundle b from state st, with the answer the cache service gave for b in
\* this batch: a raised error ends the batch.
SequentialRestore(b, st) ==
    LET key == Trim(st.meta[getBundleMetaFile(b)])
        found == {e \in st.cache : e.key = key /\ e.path = PatternOf(b)}
    IN  IF st.meta[getBundleMetaFile(b)] = NoFile THEN st
        ELSE IF outcome[b] = "Error" THEN [st EXCEPT !.raised = TRUE]
        ELSE IF found = {} THEN st
        ELSE [st EXCEPT !.live = @ \cup (CHOOSE e \in found : TRUE).files]

\* The debug-sequential execution (lines 169-171) of saveArtifactBundle on
\* bundle b from state st, with the glob order, the upload result and the
\* deletion failures the environment chose for b in this batch.
SequentialSave(b, st) ==
    LET bundleMetaFile == getBundleMetaFile(b)
        files == bundleFiles[b]
        key == createCacheKey(b, files)
        previous == IF st.meta[bundleMetaFile] # NoFile
                    THEN Trim(st.meta[bundleMetaFile]) ELSE <<>>
        deleted == [st EXCEPT !.live = @ \ (Range(files) \ delFailed[b])]
        matched == {f \in st.live : Matches(PatternOf(b), f)}
        entry == [key |-> key, path |-> PatternOf(b), files |-> matched,
                  data |-> [f \in matched |-> content[f]]]
    IN  IF files = <<>>
        THEN IF outcome[b] = "NoFilesMetaKept" THEN st
             ELSE [st EXCEPT !.meta[bundleMetaFile] = NoFile]
        ELSE IF previous = key THEN deleted
        ELSE [deleted EXCEPT !.meta[bundleMetaFile] = key,
                             !.cache = IF outcome[b] = "Uploaded"
                                       THEN @ \cup {entry} ELSE @]

\* the state the debug-sequential execution of the batch reaches from `st`
\* when the bundles from position i on are still to be run
RECURSIVE Sequential(_, _)
Sequential(i, st) ==
    IF i > NumBundles \/ st.raised THEN st
    ELSE Sequential(i + 1,
                    IF op = "restore"
                    THEN SequentialRestore(getArtifactBundles[i][1], st)
                    ELSE SequentialSave(getArtifactBundles[i][1], st))

SequentialFinal ==
    Sequential(1, [live |-> start.live, meta |-> start.meta, cache |-> start.cache,
                   raised |-> FALSE])

\* the batch has ended and none of its bundle operations is still running
BatchOver == EngineEnded /\ \A b \in Bundles : ~InFlight(b)

\* Sequential is the debug-sequential execution: a batch run with the debug
\* flag ends in the state it gives.
DebugRunIsSequential ==
    (BatchOver /\ debug) =>
        /\ live = SequentialFinal.live
        /\ meta = SequentialFinal.meta
        /\ cache = SequentialFinal.cache

\* C15: interleaving independence.  When a batch run in concurrent mode is
\* over, the live tree, the meta-files and the cache are those the
\* debug-sequential execution of the batch reaches from the same initial
\* state with the same answers of the environment.
C15_InterleavingIndependence ==
    (BatchOver /\ ~debug) =>
        /\ live = SequentialFinal.live
        /\ meta = SequentialFinal.meta
        /\ cache = SequentialFinal.cache

\* a step of saveArtifactBundle(b) after its glob or its upload has settled
SaveStepOf(b) == op = "save" /\ bpc[b] \in {"glob", "saveCache"} /\ bpc'[b] # bpc[b]

\* C16: Meta-file frame.  A step of the save of bundle b leaves every
\* meta-file other than b's own as it was (not created, not overwritten, not
\* deleted), whatever the configured patterns are, also when a pattern
\* matches entries of the directory holding the meta-files; and no step of a
\* restoreAll changes any meta-file.
C16_MetaFileFrame ==
    [][/\ \A b \in Bundles :
            SaveStepOf(b) =>
                \A n \in Bundles \ {b} :
                    meta'[getBundleMetaFile(n)] = meta[getBundleMetaFile(n)]
       /\ op = "restore" => meta' = meta]_vars

\* an exception of the engine has a cause outside the size report: a bundle
\* operation that was rejected
ThrewByBundle == \E b \in Bundles : bpc[b] = "failed"

\* C18: Diagnostics never block caching.  Whatever running the size report
\* ends in (exit code 0, another exit code, utility missing), afterRestore
\* and beforeSave do not fail because of it and handle all bundles: when the
\* engine has thrown, a bundle operation was rejected, and when it has
\* returned, every bundle operation is done.
C18_DiagnosticsNeverBlock ==
    /\ enginePc = "threw" => ThrewByBundle
    /\ enginePc = "returned" => \A b \in Bundles : bpc[b] = "done"

\* restore() of step i returns or reaches its await in this step
RestoreCalled(i) == stepPc[i] = "main" /\ stepPc'[i] # "main"

\* C19: Restore once per job.  Once a restore() has completed normally the
\* cache-restored variable is exported and stays exported, and every restore()
\* called with the variable exported returns without initialising or
\* restoring the Gradle state cache and without writing saved state; a
\* restore() that is skipped because caching is disabled, or that failed,
\* leaves the exported variables as they were.
C19_RestoreOncePerJob ==
    /\ [](\A i \in Steps : did[i].restore = "ok" => CACHE_RESTORED_VAR \in processEnv)
    /\ [][/\ CACHE_RESTORED_VAR \in processEnv => CACHE_RESTORED_VAR \in processEnv'
          /\ \A i \in Steps :
               /\ (RestoreCalled(i) /\ CACHE_RESTORED_VAR \in processEnv)
                    => /\ stepPc'[i] = "post"
                       /\ did'[i].init = FALSE /\ did'[i].restore = "no"
                       /\ savedState' = savedState
               /\ (RestoreCalled(i) /\ inputs'[i].disabled)
                    => /\ processEnv' = processEnv
                       /\ did'[i].init = FALSE /\ did'[i].restore = "no"
               /\ (stepPc[i] = "restoring" /\ did'[i].restore = "threw")
                    => processEnv' = processEnv]_vars

C19_Witness ==
    \E i, j \in Steps :
        /\ i < j
        /\ did[i].restore = "ok"
        /\ ~inputs[j].disabled
        /\ stepPc[j] = "post"
        /\ did[j].init = FALSE /\ did[j].restore = "no" /\ savedState[j] = {}

\* C20: Save gating.  save() calls the Gradle state cache save only when
\* caching is not disabled, the restore() of the same step completed
\* normally and saved the cache-restored state, and the cache is not
\* read-only; a save() that passes the first two tests with a read-only
\* cache logs the caching report and calls no save, so nothing is uploaded
\* or deleted by it.
C20_SaveGating ==
    \A i \in Steps :
        /\ did[i].save # "no"
             => /\ ~inputs[i].disabled
                /\ did[i].restore = "ok"
                /\ CACHE_RESTORED_VAR \in savedState[i]
                /\ ~inputs[i].readOnly
        /\ (stepPc[i] = "end" /\ ~inputs[i].disabled /\ did[i].restore = "ok"
              /\ inputs[i].readOnly)
             => did[i].report = 1 /\ did[i].save = "no"

C20_Witness ==
    \E i, j \in Steps :
        /\ stepPc[i] = "end" /\ stepPc[j] = "end"
        /\ did[i].restore = "threw" /\ did[i].save = "no"
        /\ inputs[j].readOnly /\ did[j].restore = "ok" /\ did[j].report = 1
====
